---------------------------- MODULE Spec2Model ----------------------------
(***************************************************************************)
(* A model of src/graph.js: the download of the category lists and of the  *)
(* per-(object class, budget function) amounts, the data cleaner, the      *)
(* graph builder and the layout adjuster.                                  *)
(*                                                                         *)
(* Three specifications share the variables:                               *)
(*   Spec        main(): download_categories, download_amounts,            *)
(*               clean_data, visualize, with the requests' responses       *)
(*               arriving in any order, or failing;                        *)
(*   SpecBuild   consolidate_agencies(n) and create_graph on drawn         *)
(*               category lists and amount records;                        *)
(*   SpecLayout  justify_vertically on drawn node lists, in the            *)
(*               arithmetic of JavaScript numbers at a reduced precision.  *)
(***************************************************************************)
EXTENDS Integers, Sequences, FiniteSets, TLC

VARIABLES
    pc,          \* where main() stands
    categories,  \* graph.js:16  var categories = {}
    amounts,     \* graph.js:17  var amounts = []
    catReqs,     \* download_categories: its local `requests`
    amtReqs,     \* download_amounts: its local `requests`
    idx,         \* the position of the running for-loop
    overtaken,   \* an amount response arrived while an earlier amount request was in flight
    before,      \* the agency list, amounts and cutoff consolidate_agencies was called on
    graph,       \* what create_graph returned
    written,     \* graph.svg was written
    nodes,       \* the node list handed to justify_vertically
    prevNodes,   \* the node list before the last justify_vertically
    offsets,     \* the offsets the last justify_vertically computed
    runs         \* how often justify_vertically ran

vars == <<pc, categories, amounts, catReqs, amtReqs, idx, overtaken, before,
          graph, written, nodes, prevNodes, offsets, runs>>

pipelineVars ==
    <<pc, categories, amounts, catReqs, amtReqs, idx, overtaken, before, graph, written>>
layoutVars == <<nodes, prevNodes, offsets, runs>>

-----------------------------------------------------------------------------
(* Sequences.                                                              *)

Range(s) == {s[i] : i \in 1..Len(s)}

RECURSIVE SeqsUpTo(_, _)
\* every sequence over S of length at most n
SeqsUpTo(S, n) ==
    IF n = 0 THEN {<<>>}
    ELSE LET shorter == SeqsUpTo(S, n - 1)
         IN  shorter \cup {Append(s, x) : s \in {t \in shorter : Len(t) = n - 1}, x \in S}

RECURSIVE SumSeq(_)
SumSeq(s) == IF s = <<>> THEN 0 ELSE s[1] + SumSeq(Tail(s))

\* Array.prototype.indexOf, 0-based, -1 when absent
IndexOf(list, x) ==
    IF \E i \in 1..Len(list) : list[i] = x
    THEN (CHOOSE i \in 1..Len(list) : list[i] = x /\ \A j \in 1..(i - 1) : list[j] # x) - 1
    ELSE -1

-----------------------------------------------------------------------------
(* JavaScript numbers in justify_vertically.  A Number is an IEEE 754      *)
(* double: every +, - and / rounds its exact result to the nearest         *)
(* representable value, ties to even.  The model keeps that rounding and   *)
(* narrows the significand from 53 bits to PREC bits; the values are       *)
(* integers (the smallest quantum is 1), so a value below 2^PREC is exact  *)
(* and a larger one is a multiple of the quantum of its binade.            *)

PREC == 9

HEIGHT == 1440
PADDING == 5
NODE_PADDING == 15
N_LAYERS == 4
N_AGENCIES == 18

Abs(x) == IF x < 0 THEN -x ELSE x

RECURSIVE Pow2(_)
Pow2(e) == IF e = 0 THEN 1 ELSE 2 * Pow2(e - 1)

RECURSIVE QuantumOf(_, _, _)
\* the spacing of the representable values around a/d (a >= 0, d > 0)
QuantumOf(a, d, q) == IF a < d * q * Pow2(PREC) THEN q ELSE QuantumOf(a, d, 2 * q)

\* the representable value nearest to n/d, ties to even
RoundRat(n, d) ==
    LET a   == Abs(n)
        q   == QuantumOf(a, d, 1)
        m   == a \div (d * q)
        r   == a - m * d * q
        up  == (2 * r > d * q) \/ (2 * r = d * q /\ m % 2 = 1)
        mag == (IF up THEN m + 1 ELSE m) * q
    IN  IF n < 0 THEN -mag ELSE mag

FAdd(x, y) == RoundRat(x + y, 1)
FSub(x, y) == RoundRat(x - y, 1)
FDiv(x, k) == RoundRat(x, k)

\* one unit in the last place of the canvas height
Ulp == QuantumOf(HEIGHT, 1, 1)

-----------------------------------------------------------------------------
(* justify_vertically (graph.js:149-175).  A node is                       *)
(* [layer, y0, y1, sourceLinks, targetLinks]; sourceLinks holds the y0 of  *)
(* each outgoing link and targetLinks the y1 of each incoming link.        *)

RECURSIVE LayerNodes(_, _, _)
\* graph.js:153-155: the indices of the nodes of `layer`, in node-list order
LayerNodes(ns, layer, i) ==
    IF i > Len(ns) THEN <<>>
    ELSE IF ns[i].layer = layer THEN <<i>> \o LayerNodes(ns, layer, i + 1)
    ELSE LayerNodes(ns, layer, i + 1)

RECURSIVE NodeHeight(_, _, _)
\* graph.js:152,156: node_height += node.y1 - node.y0, over the first k layer nodes
NodeHeight(ns, ids, k) ==
    IF k = 0 THEN 0
    ELSE FAdd(NodeHeight(ns, ids, k - 1), FSub(ns[ids[k]].y1, ns[ids[k]].y0))

\* a spacing that forgets the trailing gap
Spacing_NoTrailingGap(node_height, count) ==
    FDiv(FSub(HEIGHT, node_height), IF count = 0 THEN 1 ELSE count)

\* graph.js:159
Spacing(node_height, count) == FDiv(FSub(HEIGHT, node_height), count + 1)

\* an offset that moves the node by y, not to y
Offset_Absolute(y, y0) == y

\* graph.js:162
Offset(y, y0) == FSub(y, y0)

ShiftAll(ys, offset) == [j \in 1..Len(ys) |-> FAdd(ys[j], offset)]

RECURSIVE Place(_, _, _, _, _, _)
\* graph.js:161-173: the walk over the layer's nodes from the k-th on
Place(ns, offs, ids, k, y, spacing) ==
    IF k > Len(ids) THEN [nodes |-> ns, offsets |-> offs]
    ELSE LET i      == ids[k]
             node   == ns[i]
             offset == Offset(y, node.y0)
             y2     == FAdd(FAdd(y, FSub(node.y1, node.y0)), spacing)
             moved  == [node EXCEPT !.y0 = FAdd(node.y0, offset),
                                    !.y1 = FAdd(node.y1, offset),
                                    !.sourceLinks = ShiftAll(node.sourceLinks, offset),
                                    !.targetLinks = ShiftAll(node.targetLinks, offset)]
         IN  Place([ns EXCEPT ![i] = moved], [offs EXCEPT ![i] = offset],
                   ids, k + 1, y2, spacing)

RECURSIVE JustifyLayers(_, _, _)
\* graph.js:150: for (var layer = 0; layer < 4; layer++)
JustifyLayers(ns, offs, layer) ==
    IF layer >= N_LAYERS THEN [nodes |-> ns, offsets |-> offs]
    ELSE LET ids     == LayerNodes(ns, layer, 1)
             spacing == Spacing(NodeHeight(ns, ids, Len(ids)), Len(ids))
             placed  == Place(ns, offs, ids, 1, spacing, spacing)
         IN  JustifyLayers(placed.nodes, placed.offsets, layer + 1)

\* a node of no layer 0..3 is not moved: its offset stays 0
JustifyVertically(ns) == JustifyLayers(ns, [i \in 1..Len(ns) |-> 0], 0)

(* The node lists the layout library hands over: in every layer the nodes  *)
(* are stacked from the top of the extent, `pad` apart, each with one      *)
(* outgoing and one incoming link attached at its top.                     *)

MaxNodes == 2
NodeHeights == {0, 37, 100, 300}
Pads == {NODE_PADDING, 40}

RECURSIVE StackedY0(_, _, _)
\* the top of the i-th node: below the earlier nodes of its layer
StackedY0(shape, pad, i) ==
    LET same == {j \in 1..(i - 1) : shape[j].layer = shape[i].layer}
        last == IF same = {} THEN 0 ELSE CHOOSE j \in same : \A l \in same : l <= j
    IN  IF same = {} THEN PADDING
        ELSE FAdd(FAdd(StackedY0(shape, pad, last), RoundRat(shape[last].height, 1)), pad)

LayoutOf(shape, pad) ==
    [i \in 1..Len(shape) |->
        LET y0 == StackedY0(shape, pad, i)
        IN  [layer |-> shape[i].layer, y0 |-> y0,
             y1 |-> FAdd(y0, RoundRat(shape[i].height, 1)),
             sourceLinks |-> <<y0>>, targetLinks |-> <<y0>>]]

NodeShapes == [layer : 0..(N_LAYERS - 1), height : NodeHeights]

LayoutInputs ==
    {LayoutOf(shape, pad) : shape \in SeqsUpTo(NodeShapes, MaxNodes) \ {<<>>}, pad \in Pads}

InitLayout ==
    /\ nodes \in LayoutInputs
    /\ prevNodes = nodes
    /\ offsets = [i \in 1..Len(nodes) |-> 0]
    /\ runs = 0
    /\ pc = "layout" /\ categories = <<>> /\ amounts = <<>> /\ catReqs = <<>>
    /\ amtReqs = <<>> /\ idx = 0 /\ overtaken = FALSE /\ before = <<>>
    /\ graph = <<>> /\ written = FALSE

MaxRuns == 2

\* visualize (graph.js:257) calls justify_vertically(graph.nodes)
Justify ==
    /\ pc = "layout"
    /\ runs < MaxRuns
    /\ LET r == JustifyVertically(nodes)
       IN  /\ nodes' = r.nodes
           /\ offsets' = r.offsets
    /\ prevNodes' = nodes
    /\ runs' = runs + 1
    /\ UNCHANGED pipelineVars

NextLayout == Justify

SpecLayout == InitLayout /\ [][NextLayout]_vars

-----------------------------------------------------------------------------
(* The data cleaner (graph.js:71-85, 265-271).  A category is <<id, name>>  *)
(* until remove_ids, a name after it; an amount record is                  *)
(* [object_class, budget_function, agency, amount].                        *)

\* graph.js:71-75
RemoveIds(list) == [i \in 1..Len(list) |-> list[i][2]]

Min(a, b) == IF a < b THEN a ELSE b

\* graph.js:79
Excluded(agency, name, n_agencies) == IndexOf(agency, name) >= n_agencies

\* graph.js:77-85: the amounts and the agency list consolidate_agencies leaves
ConsolidateAgencies(agency, amts, n_agencies) ==
    [amounts |-> [i \in 1..Len(amts) |->
                    IF Excluded(agency, amts[i].agency, n_agencies)
                    THEN [amts[i] EXCEPT !.agency = "Other"]
                    ELSE amts[i]],
     agency  |-> Append(SubSeq(agency, 1, Min(n_agencies, Len(agency))), "Other")]

\* graph.js:265-271, with the cutoff (18 in the code) as a parameter
CleanData(n_agencies) ==
    /\ pc = "clean"
    /\ LET names == [key \in DOMAIN categories |-> RemoveIds(categories[key])]
           r     == ConsolidateAgencies(names.agency, amounts, n_agencies)
       IN  /\ before' = [agency |-> names.agency, amounts |-> amounts, n |-> n_agencies]
           /\ categories' = [names EXCEPT !.agency = r.agency]
           /\ amounts' = r.amounts
    /\ pc' = "visualize"
    /\ UNCHANGED <<catReqs, amtReqs, idx, overtaken, graph, written>>
    /\ UNCHANGED layoutVars

-----------------------------------------------------------------------------
(* The graph builder (graph.js:87-147).  Node i of the code is nodes[i+1]; *)
(* a link is [source, target, names, value].  The amounts are JavaScript   *)
(* numbers and sum_filter adds them with +=, which rounds.                 *)

ROOT_NAME == "USA FY 2019 Spending"

\* graph.js:91-98: gen_ids, called when the node list holds `base` nodes
GenIds(list, base) ==
    [c \in Range(list) |->
        base + (CHOOSE i \in 1..Len(list) :
                    list[i] = c /\ \A j \in (i + 1)..Len(list) : list[j] # c) - 1]

ObjectClassIds(cats) == GenIds(cats.object_class, 1)
BudgetFunctionIds(cats) == GenIds(cats.budget_function, 1 + Len(cats.object_class))
AgencyIds(cats) ==
    GenIds(cats.agency, 1 + Len(cats.object_class) + Len(cats.budget_function))

\* a filter that looks at the object class only
Matches_FirstKeyOnly(amount, constraints) ==
    amount.object_class = constraints.object_class

\* graph.js:106-110
Matches(amount, constraints) ==
    \A key \in DOMAIN constraints : amount[key] = constraints[key]

RECURSIVE SumOver(_, _, _)
\* graph.js:104-113: the total after the first k records
SumOver(amts, constraints, k) ==
    IF k = 0 THEN 0
    ELSE IF Matches(amts[k], constraints)
         THEN FAdd(SumOver(amts, constraints, k - 1), amts[k].amount)
         ELSE SumOver(amts, constraints, k - 1)

\* graph.js:103-114
SumFilter(amts, constraints) == SumOver(amts, constraints, Len(amts))

\* a test that keeps the paths whose total is 0
KeepLink_NonNegative(total) == total >= 0

\* graph.js:125,135
KeepLink(total) == total > 0

\* a root link only for an object class with a positive total
RootLink_OnlyPositive(cats, amts, object_class) ==
    LET total == SumFilter(amts, [object_class |-> object_class])
    IN  IF total > 0
        THEN <<[source |-> 0, target |-> ObjectClassIds(cats)[object_class],
                names |-> <<object_class>>, value |-> total]>>
        ELSE <<>>

\* graph.js:117-122
RootLink(cats, amts, object_class) ==
    <<[source |-> 0, target |-> ObjectClassIds(cats)[object_class],
       names |-> <<object_class>>,
       value |-> SumFilter(amts, [object_class |-> object_class])]>>

RECURSIVE AgencyLinks(_, _, _, _, _)
\* graph.js:133-143: the links of the agencies from the k-th on
AgencyLinks(cats, amts, object_class, budget_function, k) ==
    IF k > Len(cats.agency) THEN <<>>
    ELSE LET agency == cats.agency[k]
             total  == SumFilter(amts, [object_class |-> object_class,
                                        budget_function |-> budget_function,
                                        agency |-> agency])
         IN  (IF KeepLink(total)
              THEN <<[source |-> BudgetFunctionIds(cats)[budget_function],
                      target |-> AgencyIds(cats)[agency],
                      names |-> <<object_class, budget_function, agency>>,
                      value |-> total]>>
              ELSE <<>>)
             \o AgencyLinks(cats, amts, object_class, budget_function, k + 1)

RECURSIVE BudgetLinks(_, _, _, _)
\* graph.js:123-144: the links of the budget functions from the j-th on
BudgetLinks(cats, amts, object_class, j) ==
    IF j > Len(cats.budget_function) THEN <<>>
    ELSE LET budget_function == cats.budget_function[j]
             total == SumFilter(amts, [object_class |-> object_class,
                                       budget_function |-> budget_function])
         IN  (IF KeepLink(total)
              THEN <<[source |-> ObjectClassIds(cats)[object_class],
                      target |-> BudgetFunctionIds(cats)[budget_function],
                      names |-> <<object_class, budget_function>>,
                      value |-> total]>>
              ELSE <<>>)
             \o AgencyLinks(cats, amts, object_class, budget_function, 1)
             \o BudgetLinks(cats, amts, object_class, j + 1)

RECURSIVE ClassLinks(_, _, _)
\* graph.js:116-145: the links of the object classes from the i-th on
ClassLinks(cats, amts, i) ==
    IF i > Len(cats.object_class) THEN <<>>
    ELSE RootLink(cats, amts, cats.object_class[i])
         \o BudgetLinks(cats, amts, cats.object_class[i], 1)
         \o ClassLinks(cats, amts, i + 1)

\* graph.js:87-147
CreateGraph(cats, amts) ==
    [nodes |-> <<ROOT_NAME>> \o cats.object_class \o cats.budget_function \o cats.agency,
     links |-> ClassLinks(cats, amts, 1)]

(* visualize (graph.js:245-263): the graph is built, laid out, adjusted,   *)
(* drawn and written to graph.svg.  The coordinates of the layout are the  *)
(* subject of SpecLayout.                                                  *)
Visualize ==
    /\ pc = "visualize"
    /\ graph' = CreateGraph(categories, amounts)
    /\ written' = TRUE
    /\ pc' = "done"
    /\ UNCHANGED <<categories, amounts, catReqs, amtReqs, idx, overtaken, before>>
    /\ UNCHANGED layoutVars

(* The states download_categories and download_amounts leave: category     *)
(* lists of distinct categories, and amount records grouped by request in  *)
(* issue order, each with the names of its request's object class and      *)
(* budget function and with the agency name and amount the response gave,  *)
(* a response naming an agency once.  "Z" is an agency the responses to    *)
(* the amount requests name and the agency category list does not.         *)

MaxRecords == 2
MaxCutoff == 3

ObjectClassLists == {<<(<<1, "A">>)>>, <<(<<1, "A">>), (<<2, "B">>)>>}
BudgetFunctionLists == {<<(<<10, "F">>)>>, <<(<<10, "F">>), (<<11, "G">>)>>}
AgencyLists == {<<(<<20, "X">>), (<<21, "Y">>)>>}
ResultAgencies == {"X", "Y", "Z"}
ResultAmounts == {-50, 50, 1000}

\* the position of a record's request in issue order
RequestRank(oc, bf, r) ==
    IndexOf(RemoveIds(oc), r.object_class) * Len(bf) + IndexOf(RemoveIds(bf), r.budget_function)

AmountLists(oc, bf) ==
    LET records == [object_class : Range(RemoveIds(oc)),
                    budget_function : Range(RemoveIds(bf)),
                    agency : ResultAgencies, amount : ResultAmounts]
    IN  {a \in SeqsUpTo(records, MaxRecords) :
            /\ \A i \in 1..(Len(a) - 1) :
                  RequestRank(oc, bf, a[i]) <= RequestRank(oc, bf, a[i + 1])
            /\ \A i, j \in 1..Len(a) :
                  (i # j /\ RequestRank(oc, bf, a[i]) = RequestRank(oc, bf, a[j]))
                      => a[i].agency # a[j].agency}

InitBuild ==
    /\ pc = "clean"
    /\ \E oc \in ObjectClassLists, bf \in BudgetFunctionLists, ag \in AgencyLists :
          /\ categories = [object_class |-> oc, budget_function |-> bf, agency |-> ag]
          /\ amounts \in AmountLists(oc, bf)
    /\ catReqs = <<>> /\ amtReqs = <<>> /\ idx = 0 /\ overtaken = FALSE
    /\ before = <<>> /\ graph = <<>> /\ written = FALSE
    /\ nodes = <<>> /\ prevNodes = <<>> /\ offsets = <<>> /\ runs = 0

NextBuild ==
    \/ \E n \in 0..MaxCutoff : CleanData(n)
    \/ Visualize

SpecBuild == InitBuild /\ [][NextBuild]_vars

-----------------------------------------------------------------------------
(* main (graph.js:273-280): download_categories, download_amounts,         *)
(* clean_data, visualize.  A request is posted when it is pushed on        *)
(* `requests`; its promise settles, fulfilled with a response or rejected, *)
(* only while main is suspended at an await.  A result of a response is    *)
(* [id, type, name, amount].                                               *)

CATEGORY_TYPES == <<"object_class", "budget_function", "agency">>

Item(id, type, name, amount) == [id |-> id, type |-> type, name |-> name, amount |-> amount]

\* the responses the endpoint may give to the request for the categories of a type
CategoryResponses(type) ==
    CASE type = "object_class" ->
            {<<Item(1, type, "A", 100), Item(3, type, "Ghost", 0)>>,
             <<Item(2, type, "B", -5), Item(3, type, "Ghost", 0), Item(1, type, "A", 100)>>,
             <<Item(3, type, "Ghost", 0)>>}
      [] type = "budget_function" ->
            {<<Item(10, type, "F", 70), Item(11, type, "G", 25)>>,
             <<Item(12, type, "Idle", 0), Item(11, type, "G", 25)>>}
      [] type = "agency" ->
            {<<Item(20, type, "X", 60), Item(21, type, "Y", 0)>>,
             <<Item(22, type, "W", -7), Item(20, type, "X", 60)>>}

\* the results the endpoint may list for a pair: an agency at most once
AmountResults == {Item(20, "agency", "X", 50), Item(23, "agency", "Z", -30)}

AmountResponses ==
    {r \in SeqsUpTo(AmountResults, Cardinality(AmountResults)) :
        \A i, j \in 1..Len(r) : i # j => r[i] # r[j]}

\* a filter that keeps the positive amounts only
Retained_PositiveOnly(result) == result.amount > 0

\* graph.js:33
Retained(result) == result.amount # 0

RECURSIVE PushResults(_, _, _)
\* graph.js:32-36, over the first k results
PushResults(cats, results, k) ==
    IF k = 0 THEN cats
    ELSE LET c == PushResults(cats, results, k - 1)
             result == results[k]
         IN  IF Retained(result)
             THEN [c EXCEPT ![result.type] = Append(@, <<result.id, result.name>>)]
             ELSE c

\* an await that does not wait for the promise
Settled_NoAwait(request) == TRUE

\* graph.js:31,59: await resumes once the promise has settled
Settled(request) == request.status # "pending"

\* a rejection that is caught and passed over
ResumeAt_SwallowRejection(request, next) == next

\* graph.js:31,59 and 274-275: await throws on a rejected promise, and
\* nothing catches it in download_categories, download_amounts or main
ResumeAt(request, next) == IF request.status = "failed" THEN "aborted" ELSE next

\* graph.js:61-66
RecordOf(request, result) ==
    [object_class |-> request.object_class[2],
     budget_function |-> request.budget_function[2],
     agency |-> result.name, amount |-> result.amount]

\* graph.js:60-67
RecordsOf(request) ==
    [k \in 1..Len(request.results) |-> RecordOf(request, request.results[k])]

\* graph.js:42-43: the number of (object class, budget function) pairs
PairCount(cats) == Len(cats.object_class) * Len(cats.budget_function)

\* the k-th pair with the loops swapped: budget function in the outer loop
PairAt_BudgetFunctionOuter(cats, k) ==
    [object_class    |-> cats.object_class[((k - 1) % Len(cats.object_class)) + 1],
     budget_function |-> cats.budget_function[((k - 1) \div Len(cats.object_class)) + 1]]

\* graph.js:42-43: the k-th pair, object class in the outer loop
PairAt(cats, k) ==
    [object_class    |-> cats.object_class[((k - 1) \div Len(cats.budget_function)) + 1],
     budget_function |-> cats.budget_function[((k - 1) % Len(cats.budget_function)) + 1]]

Init ==
    /\ pc = "categories_issue"
    /\ categories = <<>>
    /\ amounts = <<>>
    /\ catReqs = <<>> /\ amtReqs = <<>> /\ idx = 1 /\ overtaken = FALSE
    /\ before = <<>> /\ graph = <<>> /\ written = FALSE
    /\ nodes = <<>> /\ prevNodes = <<>> /\ offsets = <<>> /\ runs = 0

\* graph.js:21-29: one turn of the loop that posts the category requests
IssueCategory ==
    /\ pc = "categories_issue"
    /\ catReqs' = Append(catReqs, [type |-> CATEGORY_TYPES[idx],
                                   status |-> "pending", results |-> <<>>])
    /\ categories' = (CATEGORY_TYPES[idx] :> <<>>) @@ categories
    /\ IF idx < Len(CATEGORY_TYPES)
       THEN idx' = idx + 1 /\ pc' = pc
       ELSE idx' = 1 /\ pc' = "categories_await"
    /\ UNCHANGED <<amounts, amtReqs, overtaken, before, graph, written>>
    /\ UNCHANGED layoutVars

Overtakes(requests, i) == \E j \in 1..(i - 1) : requests[j].status = "pending"

\* the endpoint answers a category request
SettleCategory ==
    /\ pc = "categories_await"
    /\ \E i \in 1..Len(catReqs) :
          /\ catReqs[i].status = "pending"
          /\ \E response \in CategoryResponses(catReqs[i].type) :
                catReqs' = [catReqs EXCEPT ![i] = [@ EXCEPT !.status = "ok",
                                                            !.results = response]]
    /\ UNCHANGED <<pc, categories, amounts, amtReqs, idx, overtaken, before, graph, written>>
    /\ UNCHANGED layoutVars

\* a category request fails
FailCategory ==
    /\ pc = "categories_await"
    /\ \E i \in 1..Len(catReqs) :
          /\ catReqs[i].status = "pending"
          /\ catReqs' = [catReqs EXCEPT ![i] = [@ EXCEPT !.status = "failed"]]
    /\ UNCHANGED <<pc, categories, amounts, amtReqs, idx, overtaken, before, graph, written>>
    /\ UNCHANGED layoutVars

\* graph.js:30-37: one turn of the loop that awaits the category requests;
\* after the last, main goes on into download_amounts (graph.js:274-275)
AwaitCategory ==
    /\ pc = "categories_await"
    /\ LET request == catReqs[idx]
       IN  /\ Settled(request)
           /\ categories' = IF request.status = "ok"
                            THEN PushResults(categories, request.results,
                                             Len(request.results))
                            ELSE categories
           /\ pc' = ResumeAt(request,
                        IF idx < Len(catReqs) THEN "categories_await"
                        ELSE IF PairCount(categories') = 0 THEN "clean"
                        ELSE "amounts_issue")
           /\ idx' = IF idx < Len(catReqs) THEN idx + 1 ELSE 1
    /\ UNCHANGED <<amounts, catReqs, amtReqs, overtaken, before, graph, written>>
    /\ UNCHANGED layoutVars

\* graph.js:42-57: one turn of the loops that post the amount requests
IssueAmount ==
    /\ pc = "amounts_issue"
    /\ LET pair == PairAt(categories, idx)
       IN  amtReqs' = Append(amtReqs,
                [object_class |-> pair.object_class,
                 budget_function |-> pair.budget_function,
                 filters |-> [object_class |-> pair.object_class[1],
                              budget_function |-> pair.budget_function[1]],
                 status |-> "pending", results |-> <<>>])
    /\ IF idx < PairCount(categories)
       THEN idx' = idx + 1 /\ pc' = pc
       ELSE idx' = 1 /\ pc' = "amounts_await"
    /\ UNCHANGED <<categories, amounts, catReqs, overtaken, before, graph, written>>
    /\ UNCHANGED layoutVars

\* the endpoint answers an amount request
SettleAmount ==
    /\ pc = "amounts_await"
    /\ \E i \in 1..Len(amtReqs) :
          /\ amtReqs[i].status = "pending"
          /\ \E response \in AmountResponses :
                amtReqs' = [amtReqs EXCEPT ![i] = [@ EXCEPT !.status = "ok",
                                                            !.results = response]]
          /\ overtaken' = (overtaken \/ Overtakes(amtReqs, i))
    /\ UNCHANGED <<pc, categories, amounts, catReqs, idx, before, graph, written>>
    /\ UNCHANGED layoutVars

\* an amount request fails
FailAmount ==
    /\ pc = "amounts_await"
    /\ \E i \in 1..Len(amtReqs) :
          /\ amtReqs[i].status = "pending"
          /\ amtReqs' = [amtReqs EXCEPT ![i] = [@ EXCEPT !.status = "failed"]]
    /\ UNCHANGED <<pc, categories, amounts, catReqs, idx, overtaken, before, graph, written>>
    /\ UNCHANGED layoutVars

\* graph.js:58-68: one turn of the loop that awaits the amount requests;
\* after the last, main goes on to clean_data (graph.js:275-276)
AwaitAmount ==
    /\ pc = "amounts_await"
    /\ LET request == amtReqs[idx]
       IN  /\ Settled(request)
           /\ amounts' = IF request.status = "ok"
                         THEN amounts \o RecordsOf(request)
                         ELSE amounts
           /\ pc' = ResumeAt(request,
                        IF idx < Len(amtReqs) THEN "amounts_await" ELSE "clean")
           /\ idx' = IF idx < Len(amtReqs) THEN idx + 1 ELSE 1
    /\ UNCHANGED <<categories, catReqs, amtReqs, overtaken, before, graph, written>>
    /\ UNCHANGED layoutVars

\* graph.js:280: a promise rejected before the loop has come to await it has
\* no handler; the runtime may end the process there (Node.js from version 15
\* on) or only warn and let main run on to the await that throws
UnhandledRejection ==
    /\ \/ pc = "categories_await"
             /\ \E i \in (idx + 1)..Len(catReqs) : catReqs[i].status = "failed"
       \/ pc = "amounts_await"
             /\ \E i \in (idx + 1)..Len(amtReqs) : amtReqs[i].status = "failed"
    /\ pc' = "aborted"
    /\ UNCHANGED <<categories, amounts, catReqs, amtReqs, idx, overtaken, before,
                   graph, written>>
    /\ UNCHANGED layoutVars

Next ==
    \/ IssueCategory
    \/ SettleCategory
    \/ FailCategory
    \/ AwaitCategory
    \/ IssueAmount
    \/ SettleAmount
    \/ FailAmount
    \/ AwaitAmount
    \/ UnhandledRejection
    \/ CleanData(N_AGENCIES)
    \/ Visualize

Spec == Init /\ [][Next]_vars

-----------------------------------------------------------------------------
(* Claims about the downloads.                                             *)

Failed(requests) == {i \in 1..Len(requests) : requests[i].status = "failed"}
InFlight(requests) == {i \in 1..Len(requests) : requests[i].status = "pending"}

AnyFailed == Failed(catReqs) # {} \/ Failed(amtReqs) # {}

\* C5: once a category or amount request has failed, clean_data and visualize
\* never run and graph.svg is never written, and from then on no request is
\* posted: the failed request is not posted again and no other is.
C5_FailureAborts ==
    /\ [](AnyFailed =>
            /\ pc \in {"categories_await", "amounts_await", "aborted"}
            /\ before = <<>>
            /\ graph = <<>>
            /\ ~written)
    /\ [][AnyFailed =>
            /\ Len(catReqs') = Len(catReqs)
            /\ Len(amtReqs') = Len(amtReqs)
            /\ \A i \in Failed(catReqs) : catReqs'[i] = catReqs[i]
            /\ \A i \in Failed(amtReqs) : amtReqs'[i] = amtReqs[i]]_vars

\* an amount request failed after the results of an earlier one were appended,
\* and the run was aborted
C5_Witness ==
    /\ pc = "aborted"
    /\ Failed(amtReqs) # {}
    /\ amounts # <<>>

\* download_categories has returned and clean_data has not run
CategoriesLoaded ==
    /\ before = <<>>
    /\ \/ pc \in {"amounts_issue", "amounts_await", "clean"}
       \/ pc = "aborted" /\ amtReqs # <<>>

RECURSIVE NonZeroPairs(_)
\* the <<id, name>> of the results whose amount is not 0, in the results' order
NonZeroPairs(results) ==
    IF results = <<>> THEN <<>>
    ELSE (IF Head(results).amount = 0 THEN <<>>
          ELSE <<(<<Head(results).id, Head(results).name>>)>>)
         \o NonZeroPairs(Tail(results))

\* C8: when download_categories has returned, the list of each of the three
\* category types holds the <<id, name>> of exactly the results of that
\* type's response whose amount is not 0, in the response's order.
C8_NonZeroCategoriesInOrder ==
    CategoriesLoaded =>
        /\ DOMAIN categories = Range(CATEGORY_TYPES)
        /\ \A i \in 1..Len(CATEGORY_TYPES) :
              /\ catReqs[i].type = CATEGORY_TYPES[i]
              /\ categories[CATEGORY_TYPES[i]] = NonZeroPairs(catReqs[i].results)

\* a response with a zero amount between a negative and a positive one, and
\* the agency response answered before the object class response
C8_Witness ==
    /\ CategoriesLoaded
    /\ Len(catReqs[1].results) = 3
    /\ Len(categories.object_class) = 2
    /\ \E k \in 1..Len(catReqs[3].results) : catReqs[3].results[k].amount < 0

\* C9 as claimed: categories is written only when no category request is in
\* flight, and amounts only when no amount request is in flight (stated here
\* for the writes that follow the posting loop, which the claim includes).
C9_WritesOnlyAfterWholeBatch ==
    [][/\ (pc # "categories_issue" /\ categories' # categories) => InFlight(catReqs) = {}
       /\ amounts' # amounts => InFlight(amtReqs) = {}]_vars

\* C9 as amended: the loop that posts the category requests sets each list of
\* categories to [] while the requests posted before are in flight; after
\* that, results are appended to categories or to amounts only when the
\* request they answer and every request posted before it in its batch have
\* resolved, while requests posted after it may still be in flight; the
\* settling of a request writes neither.
C9_WritesOnlyAfterOwnRequest ==
    [][/\ pc = "categories_issue" =>
             /\ amounts' = amounts
             /\ \A key \in DOMAIN categories' :
                   categories'[key] = <<>> \/ (key \in DOMAIN categories
                                               /\ categories'[key] = categories[key])
       /\ (pc = "categories_await" /\ categories' # categories) =>
             /\ \A j \in 1..idx : catReqs[j].status = "ok"
             /\ amounts' = amounts
       /\ pc = "amounts_issue" => (amounts' = amounts /\ categories' = categories)
       /\ (pc = "amounts_await" /\ amounts' # amounts) =>
             /\ \A j \in 1..idx : amtReqs[j].status = "ok"
             /\ categories' = categories
       /\ (catReqs' # catReqs \/ amtReqs' # amtReqs) /\ pc' = pc /\ idx' = idx =>
             (amounts' = amounts /\ categories' = categories)]_vars

\* results were appended to amounts while a later amount request is in flight
C9_Witness ==
    /\ pc = "amounts_await"
    /\ amounts # <<>>
    /\ InFlight(amtReqs) # {}

\* download_amounts has posted its requests, and clean_data has not run
AmountsPosted == before = <<>> /\ pc \in {"amounts_await", "clean"}

\* the request posted with the identifiers of a pair
RequestFor(oc, bf) ==
    {k \in 1..Len(amtReqs) : amtReqs[k].filters = [object_class |-> oc[1],
                                                   budget_function |-> bf[1]]}

ResponseRecords(oc, bf, results) ==
    [k \in 1..Len(results) |->
        [object_class |-> oc[2], budget_function |-> bf[2],
         agency |-> results[k].name, amount |-> results[k].amount]]

RECURSIVE ExpectedAmounts(_)
\* the records of the responses to the first n pairs, object class outermost
ExpectedAmounts(n) ==
    IF n = 0 THEN <<>>
    ELSE LET nbf == Len(categories.budget_function)
             oc  == categories.object_class[((n - 1) \div nbf) + 1]
             bf  == categories.budget_function[((n - 1) % nbf) + 1]
             k   == CHOOSE r \in RequestFor(oc, bf) : TRUE
         IN  ExpectedAmounts(n - 1) \o ResponseRecords(oc, bf, amtReqs[k].results)

\* C10: no response is consumed before every amount request is posted, one
\* request per pair; and whatever the order of arrival, amounts holds the
\* records of the responses consumed so far, and in the end of all of them,
\* in the order the requests were posted (object class outermost), each
\* response's results in its own order and under the names of its request's
\* object class and budget function.
C10_AmountsInIssueOrder ==
    /\ pc = "amounts_issue" => amounts = <<>>
    /\ AmountsPosted =>
          /\ Len(amtReqs) = PairCount(categories)
          /\ \A i \in 1..Len(categories.object_class) :
                \A j \in 1..Len(categories.budget_function) :
                    RequestFor(categories.object_class[i], categories.budget_function[j])
                      = {(i - 1) * Len(categories.budget_function) + j}
    /\ (AmountsPosted /\ pc = "amounts_await") => amounts = ExpectedAmounts(idx - 1)
    /\ (AmountsPosted /\ pc = "clean") => amounts = ExpectedAmounts(PairCount(categories))

\* four requests answered out of order, two of them with the same two
\* agencies in opposite orders, and all consumed
C10_Witness ==
    /\ pc = "clean" /\ before = <<>>
    /\ overtaken
    /\ Len(amtReqs) = 4
    /\ \E i, j \in 1..Len(amtReqs) :
          /\ Len(amtReqs[i].results) = 2
          /\ Len(amtReqs[j].results) = 2
          /\ amtReqs[i].results # amtReqs[j].results

-----------------------------------------------------------------------------
(* Claims about consolidate_agencies and create_graph.                     *)

Consolidated == before # <<>>
Built == pc = "done"

FirstN(list, n) == SubSeq(list, 1, Min(n, Len(list)))

\* C1 as claimed: after consolidate_agencies(N) the agency list is the first
\* N original names followed by "Other", N+1 entries, and every record's
\* agency is one of those first N names or "Other".
C1_ConsolidatedToFirstN ==
    Consolidated =>
        /\ Len(categories.agency) = before.n + 1
        /\ categories.agency = Append(FirstN(before.agency, before.n), "Other")
        /\ \A i \in 1..Len(amounts) :
              amounts[i].agency \in Range(FirstN(before.agency, before.n)) \cup {"Other"}

\* the path of a record: its object class, budget function and agency
PathOf(r) == <<r.object_class, r.budget_function, r.agency>>

HasPrefix(path, prefix) ==
    Len(prefix) <= Len(path) /\ SubSeq(path, 1, Len(prefix)) = prefix

RECURSIVE PathTotalOver(_, _)
\* the amounts of the first k records whose path starts with `prefix`, added
\* in list order as JavaScript adds them
PathTotalOver(prefix, k) ==
    IF k = 0 THEN 0
    ELSE IF HasPrefix(PathOf(amounts[k]), prefix)
         THEN RoundRat(PathTotalOver(prefix, k - 1) + amounts[k].amount, 1)
         ELSE PathTotalOver(prefix, k - 1)

PathTotal(prefix) == PathTotalOver(prefix, Len(amounts))

RECURSIVE ChildWeights(_, _)
\* the exact sum of the weights, among the first k links, of the links one
\* level below `prefix`
ChildWeights(prefix, k) ==
    IF k = 0 THEN 0
    ELSE (IF Len(graph.links[k].names) = Len(prefix) + 1
             /\ HasPrefix(graph.links[k].names, prefix)
          THEN graph.links[k].value ELSE 0)
         + ChildWeights(prefix, k - 1)

ChildSum(prefix) == ChildWeights(prefix, Len(graph.links))

LinksOf(names) == {k \in 1..Len(graph.links) : graph.links[k].names = names}

\* the paths one level below `prefix` that the category lists name
ChildPaths(prefix) ==
    IF Len(prefix) = 1
    THEN {Append(prefix, bf) : bf \in Range(categories.budget_function)}
    ELSE {Append(prefix, ag) : ag \in Range(categories.agency)}

RECURSIVE SumTotals(_)
SumTotals(paths) ==
    IF paths = {} THEN 0
    ELSE LET p == CHOOSE q \in paths : TRUE
         IN  PathTotal(p) + SumTotals(paths \ {p})

\* the exact total of the child paths of `prefix` that have no link
OmittedTotal(prefix) == SumTotals({p \in ChildPaths(prefix) : LinksOf(p) = {}})

RECURSIVE UnlistedOver(_, _)
\* the exact sum of the amounts, among the first k records, of the records
\* under `prefix` whose agency the agency list does not name
UnlistedOver(prefix, k) ==
    IF k = 0 THEN 0
    ELSE (IF HasPrefix(PathOf(amounts[k]), prefix)
             /\ amounts[k].agency \notin Range(categories.agency)
          THEN amounts[k].amount ELSE 0)
         + UnlistedOver(prefix, k - 1)

UnlistedTotal(prefix) == UnlistedOver(prefix, Len(amounts))

RECURSIVE SumAbs(_)
SumAbs(k) == IF k = 0 THEN 0 ELSE Abs(amounts[k].amount) + SumAbs(k - 1)

\* what the roundings of the sums over the records can add up to
SumTol == Len(amounts) * QuantumOf(SumAbs(Len(amounts)), 1, 1)

\* C2 as claimed: every root link weighs what the object-class->budget-function
\* links of its object class weigh together, and each of these weighs what
\* the budget-function->agency links below it weigh together.
C2_PrefixSumsAtEveryDepth ==
    Built =>
        \A k \in 1..Len(graph.links) :
            Len(graph.links[k].names) <= 2 =>
                graph.links[k].value = ChildSum(graph.links[k].names)

\* C2 as amended: every link weighs the total of the records under its own
\* path; a root link weighs, up to the rounding of the sums, what the links
\* one level below weigh together plus the totals (none positive) of the
\* budget functions that got no link; an object-class->budget-function link
\* weighs, up to rounding, what its agency links weigh together plus the
\* totals (none positive) of the listed agencies that got no link plus the
\* amounts of its records whose agency is not in the agency list.
C2_PrefixSumsWithOmitted ==
    Built =>
        \A k \in 1..Len(graph.links) :
            LET l == graph.links[k]
            IN  /\ l.value = PathTotal(l.names)
                /\ Len(l.names) <= 2 =>
                      /\ \A p \in ChildPaths(l.names) : LinksOf(p) = {} => PathTotal(p) <= 0
                      /\ Abs(l.value - (ChildSum(l.names) + OmittedTotal(l.names)
                                        + (IF Len(l.names) = 2
                                           THEN UnlistedTotal(l.names) ELSE 0)))
                            <= SumTol

\* a root link over two budget functions, one of them with a negative total
\* and no link, and a link whose records name an unlisted agency
C2_Witness ==
    /\ Built
    /\ \E k \in 1..Len(graph.links) :
          /\ Len(graph.links[k].names) = 1
          /\ ChildSum(graph.links[k].names) > 0
          /\ OmittedTotal(graph.links[k].names) < 0
    /\ \E k \in 1..Len(graph.links) :
          /\ Len(graph.links[k].names) = 2
          /\ UnlistedTotal(graph.links[k].names) # 0

\* C3 as claimed: every link of the graph, root links included, has a weight
\* above 0.
C3_EveryLinkPositive ==
    Built => \A k \in 1..Len(graph.links) : graph.links[k].value > 0

\* C3 as amended: every link below the root links has a weight above 0, and
\* no path of two or three names whose total is 0 or less has a link; a root
\* link is there whatever its weight.
C3_DeeperLinksPositive ==
    Built =>
        /\ \A k \in 1..Len(graph.links) :
              Len(graph.links[k].names) >= 2 => graph.links[k].value > 0
        /\ \A oc \in Range(categories.object_class) :
              \A p \in ChildPaths(<<oc>>) :
                  /\ PathTotal(p) <= 0 => LinksOf(p) = {}
                  /\ \A q \in ChildPaths(p) : PathTotal(q) <= 0 => LinksOf(q) = {}

\* records that cancel to a total of 0 got no link, beside a root link of
\* weight 0 or less and a deeper link
C3_Witness ==
    /\ Built
    /\ \E k \in 1..Len(graph.links) :
          Len(graph.links[k].names) = 1 /\ graph.links[k].value <= 0
    /\ \E k \in 1..Len(graph.links) : Len(graph.links[k].names) = 3
    /\ \E oc \in Range(categories.object_class) : \E p \in ChildPaths(<<oc>>) :
          /\ PathTotal(p) = 0
          /\ \E i \in 1..Len(amounts) : HasPrefix(PathOf(amounts[i]), p)
          /\ LinksOf(p) = {}

\* C4: the graph has exactly one link from the root to the node of each object
\* class, whatever its weight, labelled with the object class alone and
\* weighing the total of the records of that object class; the root has no
\* other link.
C4_OneRootLinkPerObjectClass ==
    Built =>
        /\ \A i \in 1..Len(categories.object_class) :
              LET oc == categories.object_class[i]
                  to == {k \in 1..Len(graph.links) :
                            /\ graph.links[k].source = 0
                            /\ graph.nodes[graph.links[k].target + 1] = oc
                            /\ graph.links[k].target \in 1..Len(categories.object_class)}
              IN  /\ Cardinality(to) = 1
                  /\ \A k \in to :
                        /\ graph.links[k].names = <<oc>>
                        /\ graph.links[k].target = i
                        /\ graph.links[k].value = PathTotal(<<oc>>)
        /\ Cardinality({k \in 1..Len(graph.links) : graph.links[k].source = 0})
             = Len(categories.object_class)

\* two object classes, one whose records span two budget functions and one
\* whose total is not positive
C4_Witness ==
    /\ Built
    /\ Len(categories.object_class) = 2
    /\ \E i, j \in 1..Len(amounts) :
          /\ amounts[i].object_class = amounts[j].object_class
          /\ amounts[i].budget_function # amounts[j].budget_function
    /\ \E k \in 1..Len(graph.links) :
          graph.links[k].source = 0 /\ graph.links[k].value <= 0

-----------------------------------------------------------------------------
(* The gaps of a layer, as exact differences of the nodes' coordinates:    *)
(* from 0 to the first node, between consecutive nodes, and from the last  *)
(* node to the canvas height.                                              *)

Gaps(ns, layer) ==
    LET ids == LayerNodes(ns, layer, 1)
        k   == Len(ids)
    IN  [g \in 1..(k + 1) |->
            IF k = 0 THEN HEIGHT
            ELSE IF g = 1 THEN ns[ids[1]].y0
            ELSE IF g = k + 1 THEN HEIGHT - ns[ids[k]].y1
            ELSE ns[ids[g]].y0 - ns[ids[g - 1]].y1]

HeightOf(node) == node.y1 - node.y0

LayerHeights(ns, layer) ==
    LET ids == LayerNodes(ns, layer, 1) IN [j \in 1..Len(ids) |-> HeightOf(ns[ids[j]])]

Layers == 0..(N_LAYERS - 1)

LayerSize(ns, layer) == Len(LayerNodes(ns, layer, 1))

\* C6 as claimed: after justify_vertically the k+1 gaps of every layer are
\* equal, they sum to the canvas height minus the nodes' heights, and every
\* node keeps its height.
C6_GapsExactlyEqual ==
    runs >= 1 =>
        /\ \A layer \in Layers : \A g, h \in Range(Gaps(nodes, layer)) : g = h
        /\ \A layer \in Layers :
              SumSeq(Gaps(nodes, layer)) = HEIGHT - SumSeq(LayerHeights(prevNodes, layer))
        /\ \A i \in 1..Len(nodes) : HeightOf(nodes[i]) = HeightOf(prevNodes[i])

\* C6 as amended: after justify_vertically any two of the k+1 gaps of a layer
\* differ by at most (6k+2) ulps of the canvas height, their sum differs from
\* the canvas height minus the k heights by at most 2k ulps, and every node's
\* height changes by at most 2 ulps: equal up to the rounding of the
\* arithmetic, not exactly.
C6_GapsEqualUpToRounding ==
    runs >= 1 =>
        /\ \A layer \in Layers : \A g, h \in Range(Gaps(nodes, layer)) :
              Abs(g - h) <= (6 * LayerSize(nodes, layer) + 2) * Ulp
        /\ \A layer \in Layers :
              Abs(SumSeq(Gaps(nodes, layer))
                  - (HEIGHT - SumSeq(LayerHeights(prevNodes, layer))))
                <= 2 * LayerSize(nodes, layer) * Ulp
        /\ \A i \in 1..Len(nodes) :
              Abs(HeightOf(nodes[i]) - HeightOf(prevNodes[i])) <= 2 * Ulp

\* a layer of two nodes or more was adjusted and a node was moved
C6_Witness ==
    /\ runs = 1
    /\ \E layer \in Layers : LayerSize(nodes, layer) >= 2
    /\ \E i \in 1..Len(nodes) : offsets[i] # 0 /\ nodes[i].y0 # prevNodes[i].y0

\* C7 as claimed: justify_vertically applied to the result of a previous
\* application computes offset 0 for every node and changes no y0 or y1.
C7_IdempotentExactly ==
    runs >= 2 =>
        /\ \A i \in 1..Len(nodes) : offsets[i] = 0
        /\ \A i \in 1..Len(nodes) :
              nodes[i].y0 = prevNodes[i].y0 /\ nodes[i].y1 = prevNodes[i].y1

\* C7 as amended: justify_vertically applied to the result of a previous
\* application computes for every node of a layer of k nodes an offset of at
\* most 10k ulps of the canvas height, and moves its y0 and y1 by no more
\* than that plus one ulp: idempotent up to the rounding of the arithmetic.
C7_IdempotentUpToRounding ==
    runs >= 2 =>
        \A i \in 1..Len(nodes) :
            LET tol == 10 * LayerSize(nodes, nodes[i].layer) * Ulp
            IN  /\ Abs(offsets[i]) <= tol
                /\ Abs(nodes[i].y0 - prevNodes[i].y0) <= tol + Ulp
                /\ Abs(nodes[i].y1 - prevNodes[i].y1) <= tol + Ulp

\* a layer of two nodes or more was adjusted a second time
C7_Witness ==
    /\ runs = 2
    /\ \E layer \in Layers : LayerSize(nodes, layer) >= 2
    /\ \E i \in 1..Len(nodes) : prevNodes[i].y0 # PADDING

=============================================================================
